---- MODULE Spec2Model ----
(***************************************************************************)
(* Clear-Sky Solar (Home Assistant integration): the irradiance model of   *)
(* model.py (Haurwitz + ERBS), the calibration helper, and the polling     *)
(* coordinator of coordinator.py.                                          *)
(*                                                                         *)
(* Floats are modelled as fixed-point integers with six decimals: the      *)
(* integer x stands for the real x / SCALE.  Irradiances are therefore in  *)
(* micro-W/m^2, mu and all factors in millionths, angles in micro-radians  *)
(* or micro-degrees.  All arithmetic stays inside 32 bits.                 *)
(***************************************************************************)
EXTENDS Integers, Sequences, FiniteSets, TLC

\* ---- Fixed-point arithmetic (Python float arithmetic) ----------------------
\* The arithmetic and the math library are functions, not operators: a
\* function is applied to the value of its argument.

SCALE == 10^6

Max(a, b) == IF b > a THEN b ELSE a

Min(a, b) == IF b < a THEN b ELSE a

Abs(a) == IF a < 0 THEN -a ELSE a

\* floor(a * b / SCALE) for a, b >= 0, by splitting both factors at 1000.
MulS[a \in Int, b \in Int] ==
    LET ah == a \div 1000
        al == a % 1000
        bh == b \div 1000
        bl == b % 1000
    IN  ah * bh + (ah * bl) \div 1000 + (al * bh) \div 1000
          + (((ah * bl) % 1000) + ((al * bh) % 1000) + (al * bl) \div 1000) \div 1000

\* The float product a * b of two signed fixed-point numbers.
Mul[a \in Int, b \in Int] ==
    IF (a < 0) = (b < 0) THEN MulS[Abs(a), Abs(b)] ELSE -MulS[Abs(a), Abs(b)]

\* The float quotient a / b of two fixed-point numbers, a >= 0 and b > 0, by
\* long division in base 1000.  A divisor above 2.0 is first brought to
\* 1.0 .. 2.0 together with the dividend (the quotient is then rounded at the
\* sixth decimal; it is the exact floor otherwise).  Quotients of 2000.0 and
\* more saturate at 2000.0: the only such quotient is the exponent
\* 0.057 / mu_eff, whose exp is 0.0 long before.
Div[a \in Int, b \in Int] ==
    LET k == IF b > 2 * SCALE THEN b \div (2 * SCALE) + 1 ELSE 1
        n == a \div k
        d == b \div k
        r0 == n % d
        r1 == (r0 * 1000) % d
    IN  IF n \div d >= 2000
        THEN 2000 * SCALE
        ELSE (n \div d) * SCALE + ((r0 * 1000) \div d) * 1000 + (r1 * 1000) \div d

\* ---- math: cos, sin, radians, exp, pow -------------------------------------

\* pi, 2 * pi and pi / 2 in micro-radians.
PI == 3141593

TWO_PI == 6283185

HALF_PI == 1570796

\* ln 2
LN2 == 693147

\* cos x for 0 <= x <= pi / 4 (Taylor series in Horner form).
CosSeries[x \in Int] ==
    LET x2 == MulS[x, x]
        t6 == SCALE - MulS[x2, SCALE] \div 132
        t5 == SCALE - MulS[x2, t6] \div 90
        t4 == SCALE - MulS[x2, t5] \div 56
        t3 == SCALE - MulS[x2, t4] \div 30
        t2 == SCALE - MulS[x2, t3] \div 12
    IN  SCALE - MulS[x2, t2] \div 2

\* sin x for 0 <= x <= pi / 4.
SinSeries[x \in Int] ==
    LET x2 == MulS[x, x]
        t6 == SCALE - MulS[x2, SCALE] \div 156
        t5 == SCALE - MulS[x2, t6] \div 110
        t4 == SCALE - MulS[x2, t5] \div 72
        t3 == SCALE - MulS[x2, t4] \div 42
        t2 == SCALE - MulS[x2, t3] \div 20
        t1 == SCALE - MulS[x2, t2] \div 6
    IN  MulS[x, t1]

\* cos x and sin x for 0 <= x <= pi / 2, each by the series of the smaller angle.
CosR[x \in Int] == IF 2 * x > HALF_PI THEN SinSeries[HALF_PI - x] ELSE CosSeries[x]

SinR[x \in Int] == IF 2 * x > HALF_PI THEN CosSeries[HALF_PI - x] ELSE SinSeries[x]

\* math.cos
cos[x \in Int] ==
    LET r == Abs(x) % TWO_PI
        s == IF r > PI THEN TWO_PI - r ELSE r
    IN  IF s > HALF_PI THEN -CosR[PI - s] ELSE CosR[s]

\* math.sin, for x >= 0
sin[x \in Int] ==
    LET r == x % TWO_PI
        s == IF r > PI THEN r - PI ELSE r
        v == IF s > HALF_PI THEN SinR[PI - s] ELSE SinR[s]
    IN  IF r > PI THEN -v ELSE v

\* math.radians: micro-degrees to micro-radians, d >= 0, rounded to the
\* nearest.  pi / 180 is 0.017453 + 0.00000029252; the product is summed in
\* whole micro-radians and in millionths of one.
radians[d \in Int] ==
    LET whole == ((d \div 1000) * 17453) \div 1000
        frac == (((d \div 1000) * 17453) % 1000) * 1000 + (d % 1000) * 17453
                  + MulS[d, 292520]
    IN  whole + (frac + SCALE \div 2) \div SCALE

\* e^r for 0 <= r < ln 2 (Taylor series in Horner form, ten terms).
ExpSeries[r \in Int] ==
    LET t9 == SCALE + MulS[r, SCALE] \div 10
        t8 == SCALE + MulS[r, t9] \div 9
        t7 == SCALE + MulS[r, t8] \div 8
        t6 == SCALE + MulS[r, t7] \div 7
        t5 == SCALE + MulS[r, t6] \div 6
        t4 == SCALE + MulS[r, t5] \div 5
        t3 == SCALE + MulS[r, t4] \div 4
        t2 == SCALE + MulS[r, t3] \div 3
        t1 == SCALE + MulS[r, t2] \div 2
    IN  SCALE + MulS[r, t1]

\* 1 / e for e in 1.0 .. 2.0: floor(SCALE^2 / e), by long division.
Recip[e \in Int] == (10^9 \div e) * 1000 + ((10^9 % e) * 1000) \div e

\* math.exp: e^x = 2^m * e^r with x = m * ln 2 + r; 0.0 on underflow.
exp[x \in Int] ==
    IF x >= 0
    THEN ExpSeries[x % LN2] * 2^(x \div LN2)
    ELSE IF -x >= 20 * SCALE
         THEN 0
         ELSE Recip[ExpSeries[(-x) % LN2]] \div 2^((-x) \div LN2)

\* r^5 in fixed point.
Pow5[r \in Int] == MulS[MulS[MulS[r, r], MulS[r, r]], r]

\* The fifth root of y in 0.0 .. 1.0, digit by digit: r is the root so far,
\* step the weight of the next decimal; the next digit is the largest k with
\* (r + k * step)^5 <= y.
Root5[y \in Int, r \in Int, step \in Int] ==
    IF step = 0
    THEN r
    ELSE Root5[y,
               r + step * (CHOOSE k \in 0..9 :
                              /\ Pow5[r + k * step] <= y
                              /\ k < 9 => Pow5[r + (k + 1) * step] > y),
               step \div 10]

\* y ** 1.6 for y in 0.0 .. 1.0, as (y^(1/5))^8.
Pow8[r \in Int] == MulS[MulS[MulS[r, r], MulS[r, r]], MulS[MulS[r, r], MulS[r, r]]]

Pow16[y \in Int] ==
    IF y >= SCALE THEN SCALE ELSE Pow8[Root5[y, 0, SCALE \div 10]]

\* ---- State -------------------------------------------------------------------

VARIABLES
    hostLat,      \* hass.config.latitude: None or <<micro-degrees>>
    hostLon,      \* hass.config.longitude: None or <<micro-degrees>>
    hostTz,       \* the host's local time zone (dt_util.as_local): UTC offset, hours
    clock,        \* the wall clock: the index in InstantSeq of what now() reads
    astral,       \* the solar position provider: (lat, lon, instant) -> elevation
    call,         \* the last call of compute_clear_sky: arguments, locals, result
    call2,        \* a second call of compute_clear_sky, made after `call`
    cal,          \* the last call of estimate_site_scale_factor
    coordinator,  \* the ClearSkyCoordinator of the config entry, once constructed
    config_entries, \* hass.config_entries: the integration's entries and its flows
    erbs          \* the last call of _erbs_diffuse_fraction made on its own

vars ==
    <<hostLat, hostLon, hostTz, clock, astral, call, call2, cal, coordinator,
      config_entries, erbs>>

\* Python's None; a value v that may be None is held as <<v>>.
None == <<>>

\* No entry of the integration, no flow started.
\* _erbs_diffuse_fraction not called on its own.
NoErbs == [state |-> "none"]

NoStep == [flow_id |-> 0]

NoConfigEntries == [entries |-> <<>>, flows |-> <<>>, last |-> NoStep]

\* ---- model.py: constants and small utilities --------------------------------

\* W/m^2, solar constant
ISC == 1367

\* Days of the (non-leap) year: the range of tm_yday.
DaysInYear == 365

\* datetime.MINYEAR and datetime.MAXYEAR: the years a datetime can hold.
MINYEAR == 1

MAXYEAR == 9999

\* A timestamp is [year, day, hour, tzinfo]: the year, day of the year and hour
\* it reads, and whether it is aware (tzinfo "UTC") or naive (tzinfo "naive").
\* _as_aware_utc: a naive timestamp is taken as UTC.
as_aware_utc(ts) == IF ts.tzinfo # "naive" THEN ts ELSE [ts EXCEPT !.tzinfo = "UTC"]

\* The same instant on the host's local calendar.  The day moves on or back
\* by one when the local hour leaves 0..23, and the year with it.
LocalCalendar(ts) ==
    LET h == ts.hour + hostTz
    IN  IF h >= 24
        THEN [year |-> IF ts.day = DaysInYear THEN ts.year + 1 ELSE ts.year,
              day |-> (ts.day % DaysInYear) + 1, hour |-> h - 24, tzinfo |-> "local"]
        ELSE IF h < 0
             THEN [year |-> IF ts.day = 1 THEN ts.year - 1 ELSE ts.year,
                   day |-> ((ts.day + DaysInYear - 2) % DaysInYear) + 1,
                   hour |-> h + 24, tzinfo |-> "local"]
             ELSE [year |-> ts.year, day |-> ts.day, hour |-> h, tzinfo |-> "local"]

\* dt_util.as_local is datetime.astimezone: it raises OverflowError ("date
\* value out of range") when the local time is not in MINYEAR..MAXYEAR.
AsLocalRaises(ts) ==
    LocalCalendar(ts).year < MINYEAR \/ LocalCalendar(ts).year > MAXYEAR

\* dt_util.as_local, when it returns.
as_local(ts) == LocalCalendar(ts)

\* The UTC instant a local timestamp denotes.
Instant(loc) ==
    LET h == loc.hour - hostTz
    IN  IF h >= 24
        THEN <<(loc.day % DaysInYear) + 1, h - 24>>
        ELSE IF h < 0
             THEN <<((loc.day + DaysInYear - 2) % DaysInYear) + 1, h + 24>>
             ELSE <<loc.day, h>>

\* _day_of_year: day of year in local time.
day_of_year(ts) == as_local(ts).day

\* _eccentricity_correction: Spencer/NREL Earth-Sun distance correction E0.
Gamma[n \in Int] == (TWO_PI \div 365) * (n - 1) + ((TWO_PI % 365) * (n - 1)) \div 365

eccentricity_correction(n) ==
    1000110
      + Mul[34221, cos[Gamma[n]]]
      + Mul[1280, sin[Gamma[n]]]
      + Mul[719, cos[2 * Gamma[n]]]
      + Mul[77, sin[2 * Gamma[n]]]

\* _solar_elevation: Astral's apparent elevation (micro-degrees) for the
\* observer and the instant of the local datetime it is handed.
solar_elevation(lat, lon, when) ==
    astral[<<lat, lon, Instant(as_local(when))>>]

\* _mu_from_elevation: mu = cos(zenith) = cos(90 deg - elevation).
mu_from_elevation(elev_deg) == cos[radians[90 * SCALE - elev_deg]]

\* ---- model.py: Haurwitz core and corrections ---------------------------------

\* True division: ZeroDivisionError when the divisor is 0.0.
TrueDiv(a, b) ==
    IF b = 0 THEN [ok |-> FALSE, v |-> 0] ELSE [ok |-> TRUE, v |-> Div[a, b]]

\* mu_eff = max(1e-6, mu)
MuEff(mu) == Max(1, mu)

\* _haurwitz_ghi_from_mu: 1098 * mu_eff * exp(-0.057 / mu_eff).  ok is FALSE
\* when the division raises.
haurwitz_ghi_from_mu(mu) ==
    IF mu <= 0
    THEN [ok |-> TRUE, v |-> 0]
    ELSE [ok |-> TrueDiv(57000, MuEff(mu)).ok,
          v |-> MulS[1098 * MuEff(mu), exp[-TrueDiv(57000, MuEff(mu)).v]]]

\* _mu_shape_correction: 1 - 0.05 * (1 - mu) ** 1.6
mu_shape_correction(mu) ==
    IF mu <= 0 THEN 0 ELSE SCALE - MulS[50000, Pow16[SCALE - mu]]

\* _altitude_gain_factor: ~7% per km, clamped.  elevation_m is in whole metres.
altitude_gain_factor(elevation_m) ==
    Max(920000, Min(1180000, SCALE + (70000 * Max(0, elevation_m)) \div 1000))

\* _turbidity_attenuation: exp(-0.04 * (tl - 3.0)), tl clamped to [1.5, 8.0].
ClampTl(linke_turbidity) == Max(1500000, Min(8000000, linke_turbidity))

\* An attenuation that grows with turbidity: the exponent's sign flipped.
TurbidityGain(linke_turbidity) ==
    exp[Mul[40000, ClampTl(linke_turbidity) - 3000000]]

turbidity_attenuation(linke_turbidity) ==
    exp[Mul[-40000, ClampTl(linke_turbidity) - 3000000]]

\* ---- model.py: ERBS diffuse split ---------------------------------------------

\* The two regime tests taken inclusive: kt = 0.22 falls in the overcast
\* regime and kt = 0.80 in the polynomial.
ErbsInclusive(kt) ==
    IF kt <= 220000
    THEN SCALE - MulS[90000, kt]
    ELSE IF kt <= 800000
         THEN 951100 - MulS[160400, kt] + MulS[4388000, MulS[kt, kt]]
                - MulS[16638000, MulS[MulS[kt, kt], kt]]
                + MulS[12336000, MulS[MulS[MulS[kt, kt], kt], kt]]
         ELSE 165000

\* _erbs_diffuse_fraction
erbs_diffuse_fraction(kt) ==
    LET erbs_kt_overcast == 220000
        erbs_kt_clear == 800000
        kt2 == MulS[kt, kt]
        kt3 == MulS[kt2, kt]
        kt4 == MulS[kt3, kt]
    IN  IF kt < erbs_kt_overcast
        THEN SCALE - MulS[90000, kt]
        ELSE IF kt < erbs_kt_clear
             THEN 951100 - MulS[160400, kt] + MulS[4388000, kt2]
                    - MulS[16638000, kt3] + MulS[12336000, kt4]
             ELSE 165000

\* ---- model.py: public API ------------------------------------------------------

\* Night short-circuit test with the horizon left out of it.
IsNightBelowHorizon(elev) == elev < 0

\* if elev <= 0.0: the night short-circuit test.
IsNight(elev) == elev <= 0

\* ghi0_guard = max(1e-3, ghi0)
Ghi0Guard(ghi0) == Max(1000, ghi0)

\* The guard's floor taken for the divisor, whatever mu is.
MuGuardFloor(mu) == 1000

\* The guard with min for max: the divisor is never above 1e-3.
MuGuardMin(mu) == Min(1000, mu)

\* mu_guard = max(1e-3, mu)
MuGuard(mu) == Max(1000, mu)

\* The cap step without the extraterrestrial cap.
CapGhiUncapped(ghi, ghi0) == Max(0, ghi)

\* Physical cap vs extraterrestrial horizontal: max(0.0, min(ghi, 0.98 * ghi0))
CapGhi(ghi, ghi0) == Max(0, Min(ghi, MulS[980000, ghi0]))

\* A diffuse split that adds the diffuse share on top of the global.
SplitDhiOnTop(ghi, fd) == ghi + Mul[fd, ghi]

\* dhi = max(0.0, min(ghi, fd * ghi))
SplitDhi(ghi, fd) == Max(0, Min(ghi, Mul[fd, ghi]))

\* The arguments of a call, as the caller passed them.
Args(lat, lon, when, elevation_m, linke_turbidity) ==
    [lat |-> lat, lon |-> lon, when |-> when, elevation_m |-> elevation_m,
     linke_turbidity |-> linke_turbidity]

\* compute_clear_sky past the night short-circuit: the full pipeline.  Each
\* local is bound to its value in the order the code assigns it; ret is
\* where the call's record goes: the path taken, the locals, and the
\* ClearSkyResult returned (None when the call raised).
Daytime(args, elev, ts, ret) ==
    \E mu \in {Max(0, mu_from_elevation(elev))} :
    \E n \in {day_of_year(ts)} :
    \E dni0 \in {ISC * eccentricity_correction(n)} :
    \E ghi0 \in {MulS[dni0, mu]} :
    \E h \in {haurwitz_ghi_from_mu(mu)} :
    \E ghi_base \in {MulS[h.v, mu_shape_correction(mu)]} :
    \E ghi_raw \in {MulS[MulS[ghi_base, altitude_gain_factor(args.elevation_m)],
                         turbidity_attenuation(args.linke_turbidity)]} :
    \E ghi \in {CapGhi(ghi_raw, ghi0)} :
    \E q \in {TrueDiv(ghi, Ghi0Guard(ghi0))} :
    \E kt \in {Min(1200000, q.v)} :
    \E fd \in {erbs_diffuse_fraction(kt)} :
    \E dhi \in {SplitDhi(ghi, fd)} :
    \E d \in {TrueDiv(ghi - dhi, MuGuard(mu))} :
    \E dni \in {Max(0, d.v)} :
        ret = [path |-> "day", args |-> args, tz |-> hostTz, elev |-> elev,
               mu |-> mu, n |-> n, dni0 |-> dni0, ghi0 |-> ghi0,
               ghi_raw |-> ghi_raw, kt |-> kt, fd |-> fd,
               raised |-> ~(h.ok /\ q.ok /\ d.ok),
               result |-> IF h.ok /\ q.ok /\ d.ok
                          THEN [ghi |-> ghi, dni |-> dni, dhi |-> dhi]
                          ELSE None]

\* compute_clear_sky
compute_clear_sky(lat, lon, when, elevation_m, linke_turbidity, ret) ==
    \E ts \in {as_aware_utc(when)} :
    IF AsLocalRaises(ts)
    THEN ret = [path |-> "raised",
                args |-> Args(lat, lon, when, elevation_m, linke_turbidity),
                tz |-> hostTz, raised |-> TRUE, result |-> None]
    ELSE
    \E elev \in {solar_elevation(lat, lon, ts)} :
        IF IsNight(elev)
        THEN ret = [path |-> "night",
                    args |-> Args(lat, lon, when, elevation_m, linke_turbidity),
                    tz |-> hostTz, elev |-> elev, raised |-> FALSE,
                    result |-> [ghi |-> 0, dni |-> 0, dhi |-> 0]]
        ELSE Daytime(Args(lat, lon, when, elevation_m, linke_turbidity), elev, ts, ret)

\* ---- model.py: site calibration -------------------------------------------------

\* ghi_numeric_floor = 1e-6
ghi_numeric_floor == 1

\* A length test that lets every combination of lengths through.
LengthsUnchecked(observed_ghi, modeled_ghi, elevations_deg) == TRUE

\* len(observed_ghi) == len(modeled_ghi) == len(elevations_deg)
LengthsAgree(observed_ghi, modeled_ghi, elevations_deg) ==
    Len(observed_ghi) = Len(modeled_ghi) /\ Len(modeled_ghi) = Len(elevations_deg)

\* An elevation window that leaves its two bounds out.
InRangeOpen(el, min_elev, max_elev) == ~(el <= min_elev \/ el >= max_elev)

\* not (el < min_elev or el > max_elev)
InRange(el, min_elev, max_elev) == ~(el < min_elev \/ el > max_elev)

\* r = obs / mod, for mod > 0
Ratio(obs, mod) == IF obs < 0 THEN -Div[-obs, mod] ELSE Div[obs, mod]

\* zip(..., strict=False) stops with the shortest sequence.
ZipLen(observed_ghi, modeled_ghi, elevations_deg) ==
    Min(Len(observed_ghi), Min(Len(modeled_ghi), Len(elevations_deg)))

\* The loop from sample i on: the ratios appended to pairs, in order.
RECURSIVE PairsFrom(_, _, _, _, _, _)
PairsFrom(i, observed_ghi, modeled_ghi, elevations_deg, min_elev, max_elev) ==
    IF i > ZipLen(observed_ghi, modeled_ghi, elevations_deg)
    THEN <<>>
    ELSE (IF /\ InRange(elevations_deg[i], min_elev, max_elev)
             /\ ~(modeled_ghi[i] <= ghi_numeric_floor)
             /\ Ratio(observed_ghi[i], modeled_ghi[i]) > 0
          THEN <<Ratio(observed_ghi[i], modeled_ghi[i])>>
          ELSE <<>>)
         \o PairsFrom(i + 1, observed_ghi, modeled_ghi, elevations_deg,
                       min_elev, max_elev)

\* sorted(data), by insertion.
Insert[s \in Seq(Int), x \in Int] ==
    IF s = <<>>
    THEN <<x>>
    ELSE IF x <= Head(s) THEN <<x>> \o s ELSE <<Head(s)>> \o Insert[Tail(s), x]

Sorted[s \in Seq(Int)] == IF s = <<>> THEN <<>> ELSE Insert[Sorted[Tail(s)], Head(s)]

\* statistics.median of a non-empty list: the middle element of the sorted
\* data, or the mean of the two middle ones.
median(data) ==
    IF Len(data) % 2 = 1
    THEN Sorted[data][(Len(data) + 1) \div 2]
    ELSE (Sorted[data][Len(data) \div 2] + Sorted[data][Len(data) \div 2 + 1]) \div 2

\* The arguments of a calibration call.
CalArgs(observed_ghi, modeled_ghi, elevations_deg, min_elev, max_elev) ==
    [observed_ghi |-> observed_ghi, modeled_ghi |-> modeled_ghi,
     elevations_deg |-> elevations_deg, min_elev |-> min_elev, max_elev |-> max_elev]

\* estimate_site_scale_factor: the outcome ("raised" is the ValueError), the
\* number of samples the loop examined, the ratios kept and the value returned.
estimate_site_scale_factor(observed_ghi, modeled_ghi, elevations_deg, min_elev, max_elev) ==
    IF ~LengthsAgree(observed_ghi, modeled_ghi, elevations_deg)
    THEN [outcome |-> "raised",
          args |-> CalArgs(observed_ghi, modeled_ghi, elevations_deg, min_elev, max_elev),
          examined |-> 0, pairs |-> <<>>, value |-> None]
    ELSE [outcome |-> "returned",
          args |-> CalArgs(observed_ghi, modeled_ghi, elevations_deg, min_elev, max_elev),
          examined |-> ZipLen(observed_ghi, modeled_ghi, elevations_deg),
          pairs |-> PairsFrom(1, observed_ghi, modeled_ghi, elevations_deg,
                              min_elev, max_elev),
          value |-> IF PairsFrom(1, observed_ghi, modeled_ghi, elevations_deg,
                                 min_elev, max_elev) = <<>>
                    THEN SCALE
                    ELSE median(PairsFrom(1, observed_ghi, modeled_ghi,
                                          elevations_deg, min_elev, max_elev))]

\* ---- coordinator.py, __init__.py: the polling coordinator ----------------------

\* const.py: GHI, DNI, DHI, the keys of the published mapping.
GHI == "ghi"

DNI == "dni"

DHI == "dhi"

\* float(x or 0.0) of an optional host setting.
FloatOrZero(x) == IF x = None THEN 0 ELSE x[1]

\* The latitude read from the host configuration at each refresh.
HostLatNow(c) == FloatOrZero(hostLat)

\* self._lat and self._lon as async_update_clear_sky_estimates reads them.
SelfLat(c) == c._lat

SelfLon(c) == c._lon

\* A mapping with the global and the beam values under each other's key.
SwappedEstimates(r) == (GHI :> r.dni) @@ (DNI :> r.ghi) @@ (DHI :> r.dhi)

\* {GHI: r.ghi, DNI: r.dni, DHI: r.dhi}
Estimates(r) == (GHI :> r.ghi) @@ (DNI :> r.dni) @@ (DHI :> r.dhi)

\* ClearSkyCoordinator.__init__: latitude and longitude are read from the host
\* configuration.  config is a record of what the host configuration said at
\* that moment; data is None until the first refresh.
ClearSkyCoordinator ==
    [constructed |-> TRUE,
     _lat |-> FloatOrZero(hostLat),
     _lon |-> FloatOrZero(hostLon),
     config |-> <<hostLat, hostLon>>,
     data |-> None,
     now |-> None]

\* ---- Inputs -----------------------------------------------------------------------

\* Latitudes and longitudes (micro-degrees): the default 0.0 and San Francisco.
Lats == {0, 37774900}

Lons == {0, -122419400}

\* UTC instants <<day of year, hour>>, in the order the clock passes them.
InstantSeq == <<<<1, 20>>, <<91, 4>>, <<91, 20>>, <<185, 20>>, <<365, 20>>>>

Instants == {InstantSeq[i] : i \in 1..Len(InstantSeq)}

\* The year of the timestamps that are not at an end of the datetime range.
ThisYear == 2025

\* Timestamps a caller passes: aware UTC ones, a naive one, and one in the
\* last hours of MAXYEAR.
Whens ==
    {[year |-> ThisYear, day |-> i[1], hour |-> i[2], tzinfo |-> "UTC"] :
        i \in Instants \ {<<91, 4>>}}
      \cup {[year |-> ThisYear, day |-> 91, hour |-> 4, tzinfo |-> "naive"]}
      \cup {[year |-> MAXYEAR, day |-> 365, hour |-> 20, tzinfo |-> "UTC"]}

\* UTC offsets (hours) of the host's time zone.
Tzs == {-8, 0, 10}

\* Site altitudes, metres.
ElevationsM == {-100, 0, 1000, 3000}

\* Linke turbidities: below, at, inside, at and above the clamp [1.5, 8.0].
Turbidities == {1000000, 1500000, 1550000, 3000000, 5000000, 8000000, 9000000}

\* Solar elevations (micro-degrees) the provider may answer: night, the
\* horizon itself, grazing sun (mu below 1e-6, below 1e-3, above), day, zenith.
ElevationSeq ==
    <<-5000000, 0, 10, 50000, 500000, 5000000, 30000000, 60000000, 87000000,
      90000000>>

\* What the provider can be asked.
Geoms == {<<lat, lon, i>> : lat \in Lats, lon \in Lons, i \in Instants}

GeomIndex(g) ==
    (IF g[1] = 0 THEN 0 ELSE 1) + 2 * (IF g[2] = 0 THEN 0 ELSE 1)
      + 4 * ((CHOOSE i \in 1..Len(InstantSeq) : InstantSeq[i] = g[3]) - 1)

\* The provider is a black box: any function of (lat, lon, instant).  The
\* tables tried give every question every answer of ElevationSeq.
Skies ==
    {[g \in Geoms |-> ElevationSeq[((GeomIndex(g) + k) % Len(ElevationSeq)) + 1]] :
        k \in 0..(Len(ElevationSeq) - 1)}

\* ---- Calls of compute_clear_sky ---------------------------------------------------

NoCall == [path |-> "none"]

NoCal == [outcome |-> "none"]

NoCoordinator == [constructed |-> FALSE]

\* A call drawn but not yet made.
Pending(args) == [path |-> "pending", args |-> args]

Apply(args, ret) ==
    compute_clear_sky(args.lat, args.lon, args.when, args.elevation_m,
                      args.linke_turbidity, ret)

\* The sites direct callers ask about.
CallSites == {<<0, 0>>, <<37774900, -122419400>>}

CallArgs ==
    {Args(s[1], s[2], w, em, tl) :
        s \in CallSites, w \in Whens, em \in ElevationsM, tl \in Turbidities}

InitModel ==
    /\ hostLat = None
    /\ hostLon = None
    /\ hostTz \in Tzs
    /\ clock = 1
    /\ astral \in Skies
    /\ call \in {Pending(a) : a \in CallArgs}
    /\ call2 = NoCall
    /\ cal = NoCal
    /\ coordinator = NoCoordinator
    /\ config_entries = NoConfigEntries
    /\ erbs = NoErbs

\* A caller calls compute_clear_sky with the arguments drawn.
Compute ==
    /\ call.path = "pending"
    /\ Apply(call.args, call')
    /\ UNCHANGED <<hostLat, hostLon, hostTz, clock, astral, call2, cal, coordinator,
                 config_entries, erbs>>

NextModel == Compute

SpecModel == InitModel /\ [][NextModel]_vars

\* ---- Claims about a single call ---------------------------------------------------

\* The call has been made and has returned or raised.
Called(c) == c.path \in {"night", "day"}

Returned(c) == Called(c) /\ ~c.raised

Zero == [ghi |-> 0, dni |-> 0, dhi |-> 0]

\* The provider's answer for the observer and the instant of the call.
ElevationOf(c) == astral[<<c.args.lat, c.args.lon, <<c.args.when.day, c.args.when.hour>>>>]

\* C1: whatever the inputs, a result of compute_clear_sky has ghi >= 0,
\* dni >= 0, dhi >= 0 and dhi <= ghi, on the night path and on the daytime path.
C1_NonNegativeOrdered ==
    Returned(call) =>
        /\ call.result.ghi >= 0
        /\ call.result.dni >= 0
        /\ call.result.dhi >= 0
        /\ call.result.dhi <= call.result.ghi

\* A daytime call whose global splits into a positive beam and a positive,
\* strictly smaller diffuse part.
C1_Witness ==
    /\ call.path = "day"
    /\ ~call.raised
    /\ call.result.dhi > 0
    /\ call.result.dhi < call.result.ghi
    /\ call.result.dni > 0

\* C2: a provider elevation <= 0 (0 itself included) gives exactly (0, 0, 0)
\* by the short-circuit, whatever elevation_m and linke_turbidity are; an
\* elevation > 0 takes the full pipeline.
C2_NightZero ==
    Called(call) =>
        /\ call.elev = ElevationOf(call)
        /\ ElevationOf(call) <= 0 => call.path = "night" /\ call.result = Zero
        /\ ElevationOf(call) > 0 => call.path = "day"

\* The sun exactly on the horizon, for a high site and a turbidity off the
\* default: the short-circuit was taken.
C2_Witness ==
    /\ call.path = "night"
    /\ call.elev = 0
    /\ call.args.elevation_m = 3000
    /\ call.args.linke_turbidity = 1500000
    /\ call.result = Zero

\* C3: the ghi returned never exceeds 0.98 * dni0 * mu, with
\* dni0 = 1367 * eccentricity_correction(day_of_year) and mu the clamped
\* cosine of zenith of the call, whatever the altitude and turbidity factors.
C3_ExtraterrestrialCap ==
    /\ call.path = "night" => call.result.ghi = 0
    /\ call.path = "day" /\ ~call.raised =>
          /\ call.mu = Max(0, mu_from_elevation(ElevationOf(call)))
          /\ call.result.ghi
                <= MulS[980000, MulS[ISC * eccentricity_correction(call.n), call.mu]]

\* A call in which the cap binds: the corrected Haurwitz value is above
\* 0.98 * dni0 * mu and the ghi returned is the cap.
C3_Witness ==
    /\ call.path = "day"
    /\ ~call.raised
    /\ call.ghi_raw > MulS[980000, call.ghi0]
    /\ call.result.ghi = MulS[980000, call.ghi0]
    /\ call.result.ghi > 0

\* A call made: it returned on one of the two paths, or raised before them.
Made(c) == c.path \in {"night", "day", "raised"}

\* C6: the main path is total: for every valid timestamp, coordinate,
\* elevation_m and linke_turbidity the call returns a ClearSkyResult and none
\* raises; with mu or ghi0 at zero the guards keep every divisor positive.
C6_Total ==
    Made(call) =>
        /\ ~call.raised
        /\ call.result # None
        /\ call.path = "day" =>
              MuEff(call.mu) > 0 /\ Ghi0Guard(call.ghi0) > 0 /\ MuGuard(call.mu) > 0

\* A call that reaches the provider returns a ClearSkyResult: no division
\* meets a zero divisor.
C6_NoDivisionByZero ==
    Called(call) =>
        /\ ~call.raised
        /\ call.result # None
        /\ call.path = "day" =>
              MuEff(call.mu) > 0 /\ Ghi0Guard(call.ghi0) > 0 /\ MuGuard(call.mu) > 0

\* A daytime call with the sun so low that mu and ghi0 are zero: it returned.
C6_GuardsWitness ==
    /\ call.path = "day"
    /\ call.mu = 0
    /\ call.ghi0 = 0
    /\ ~call.raised
    /\ call.result = Zero

\* A call for 20:00 UTC of the last day of MAXYEAR on a host ten hours east of
\* UTC: it raised, and returned nothing.
C6_Witness ==
    /\ call.path = "raised"
    /\ call.args.when.year = MAXYEAR
    /\ call.tz = 10
    /\ call.raised
    /\ call.result = None

\* ---- Two calls for the same geometry -----------------------------------------

\* The first call's arguments: one site, two afternoons, sea level and a high
\* site, every turbidity.
PairArgs ==
    {Args(37774900, -122419400,
          [year |-> ThisYear, day |-> d, hour |-> 20, tzinfo |-> "UTC"], em, tl) :
        d \in {91, 185}, em \in {0, 3000}, tl \in Turbidities}

\* Calls other callers make in between.
BetweenArgs ==
    {Args(0, 0, [year |-> ThisYear, day |-> 1, hour |-> 20, tzinfo |-> "UTC"],
          1000, 9000000)}

InitPair ==
    /\ hostLat = None
    /\ hostLon = None
    /\ hostTz \in Tzs
    /\ clock = 1
    /\ astral \in Skies
    /\ call \in {Pending(a) : a \in PairArgs}
    /\ call2 = NoCall
    /\ cal = NoCal
    /\ coordinator = NoCoordinator
    /\ config_entries = NoConfigEntries
    /\ erbs = NoErbs

\* The first call.
First ==
    /\ call.path = "pending"
    /\ Apply(call.args, call')
    /\ UNCHANGED <<hostLat, hostLon, hostTz, clock, astral, call2, cal, coordinator,
                 config_entries, erbs>>

\* The second call is still to come.
AwaitingSecond ==
    /\ Called(call)
    /\ IF call2 = NoCall THEN TRUE ELSE call2.args \in BetweenArgs

\* Another caller calls compute_clear_sky between the two calls.
Between ==
    /\ Called(call)
    /\ call2 = NoCall
    /\ \E a \in BetweenArgs : Apply(a, call2')
    /\ UNCHANGED <<hostLat, hostLon, hostTz, clock, astral, call, cal, coordinator,
                 config_entries, erbs>>

\* The host's time zone is reconfigured between the two calls.
TzChange ==
    /\ AwaitingSecond
    /\ hostTz' \in Tzs \ {hostTz}
    /\ UNCHANGED <<hostLat, hostLon, clock, astral, call, call2, cal, coordinator,
                 config_entries, erbs>>

\* The second call: the first call's geometry, any turbidity.
Second ==
    /\ AwaitingSecond
    /\ \E tl \in Turbidities :
          Apply([call.args EXCEPT !.linke_turbidity = tl], call2')
    /\ UNCHANGED <<hostLat, hostLon, hostTz, clock, astral, call, cal, coordinator,
                 config_entries, erbs>>

NextPair == First \/ Between \/ TzChange \/ Second

SpecPair == InitPair /\ [][NextPair]_vars

\* Both calls made, for the same geometry, under the same host time zone, the
\* first with the clearer air.
SameGeometry ==
    /\ Called(call) /\ Called(call2)
    /\ ~call.raised /\ ~call2.raised
    /\ [call.args EXCEPT !.linke_turbidity = 0] = [call2.args EXCEPT !.linke_turbidity = 0]
    /\ call.tz = call2.tz

Hazier == SameGeometry /\ call.args.linke_turbidity < call2.args.linke_turbidity

\* Both turbidities at or beyond the same clamp bound of [1.5, 8.0].
AtSameClampBound ==
    \/ call.args.linke_turbidity <= 1500000 /\ call2.args.linke_turbidity <= 1500000
    \/ call.args.linke_turbidity >= 8000000 /\ call2.args.linke_turbidity >= 8000000

\* C4 as stated: for fixed geometry and TL1 < TL2, ghi and dni do not increase,
\* and both strictly decrease unless TL1 and TL2 are at or beyond the same
\* clamp bound.
C4_StrictUnlessClamped ==
    Hazier =>
        /\ call2.result.ghi <= call.result.ghi
        /\ call2.result.dni <= call.result.dni
        /\ ~AtSameClampBound =>
              /\ call2.result.ghi < call.result.ghi
              /\ call2.result.dni < call.result.dni

\* The hazier call is a daytime one, its ghi at least 1 W/m^2 and below the cap.
WellConditioned ==
    /\ call2.path = "day"
    /\ call2.result.ghi >= SCALE
    /\ call2.result.ghi < MulS[980000, call2.ghi0]

\* C4: for fixed geometry (and host time zone) and TL1 < TL2, ghi and dni never
\* increase; they are equal when both turbidities are at or beyond the same
\* clamp bound; both strictly decrease when the turbidities clamp to different
\* values and the hazier ghi is at least 1 W/m^2 and below the 0.98 * ghi0 cap.
C4_Monotone ==
    Hazier =>
        /\ call2.result.ghi <= call.result.ghi
        /\ call2.result.dni <= call.result.dni
        /\ AtSameClampBound => call2.result = call.result
        /\ ~AtSameClampBound /\ WellConditioned =>
              /\ call2.result.ghi < call.result.ghi
              /\ call2.result.dni < call.result.dni

\* Two daytime calls, turbidities 1.5 and 1.55, with the cap binding in both:
\* equal ghi and dni away from the clamp bounds.
C4_Witness ==
    /\ Hazier
    /\ call.args.linke_turbidity = 1500000
    /\ call2.args.linke_turbidity = 1550000
    /\ call2.path = "day"
    /\ call2.ghi_raw > MulS[980000, call2.ghi0]
    /\ call2.result.ghi = call.result.ghi
    /\ call2.result.dni = call.result.dni
    /\ call2.result.ghi > 0

\* C5: two calls with equal (lat, lon, when, elevation_m, linke_turbidity)
\* return equal results, whatever was called in between and whatever the
\* host's local time zone was at each call.
C5_Pure ==
    Called(call) /\ Called(call2) /\ call.args = call2.args =>
        call.result = call2.result

\* Two calls with equal arguments, made under the same host time zone, return
\* equal results, whatever was called in between.
C5_PureGivenZone ==
    Called(call) /\ Called(call2) /\ call.args = call2.args /\ call.tz = call2.tz =>
        call.result = call2.result

\* Equal arguments, another host time zone at the second call, another day of
\* year, another result.
C5_Witness ==
    /\ Called(call) /\ Called(call2)
    /\ call.args = call2.args
    /\ call.tz # call2.tz
    /\ call.path = "day"
    /\ call.n # call2.n
    /\ call.result # call2.result

\* ---- Calibration calls ---------------------------------------------------------

\* The longest sequence handed to estimate_site_scale_factor.
MaxLen == 3

\* Samples (observed, modeled, elevation): ratios 2.0, 3.0 at min_elev, 0.5 at
\* max_elev, 1.0; a sample above max_elev, one with a negative observation,
\* one with the modeled value at the floor, one with a zero observation.
Samples ==
    {<<100000000, 50000000, 20000000>>,
     <<300000000, 100000000, 10000000>>,
     <<50000000, 100000000, 60000000>>,
     <<100000000, 100000000, 30000000>>,
     <<400000000, 100000000, 61000000>>,
     <<-100000000, 50000000, 30000000>>,
     <<100000000, 1, 30000000>>,
     <<0, 50000000, 30000000>>}

\* The lengths of the three sequences cut from n samples: all of them, one
\* short, or none.
Cuts(n) == {n, Max(0, n - 1), 0}

Column(ss, k, len) == [i \in 1..len |-> ss[i][k]]

\* The elevation windows: the default one, and one with min_elev > max_elev.
Windows == {<<10000000, 60000000>>, <<60000000, 10000000>>}

\* A call of estimate_site_scale_factor is drawn: up to MaxLen samples, each of
\* the three sequences cut on its own, and a window.
InitCal ==
    /\ hostLat = None
    /\ hostLon = None
    /\ hostTz = 0
    /\ clock = 1
    /\ astral \in {CHOOSE f \in Skies : TRUE}
    /\ call = NoCall
    /\ call2 = NoCall
    /\ \E n \in 0..MaxLen :
       \E ss \in [1..n -> Samples] :
       \E lo \in Cuts(n), lm \in Cuts(n), le \in Cuts(n), w \in Windows :
          cal = [outcome |-> "pending",
                 args |-> CalArgs(Column(ss, 1, lo), Column(ss, 2, lm),
                                  Column(ss, 3, le), w[1], w[2])]
    /\ coordinator = NoCoordinator
    /\ config_entries = NoConfigEntries
    /\ erbs = NoErbs

\* A caller calls estimate_site_scale_factor with the arguments drawn.
Calibrate ==
    /\ cal.outcome = "pending"
    /\ cal' = estimate_site_scale_factor(cal.args.observed_ghi, cal.args.modeled_ghi,
                                         cal.args.elevations_deg, cal.args.min_elev,
                                         cal.args.max_elev)
    /\ UNCHANGED <<hostLat, hostLon, hostTz, clock, astral, call, call2, coordinator,
                 config_entries, erbs>>

NextCal == Calibrate

SpecCal == InitCal /\ [][NextCal]_vars

CalDone == cal.outcome \in {"raised", "returned"}

\* The three sequences of the call do not all have the same length.
Mismatched ==
    \/ Len(cal.args.observed_ghi) # Len(cal.args.modeled_ghi)
    \/ Len(cal.args.modeled_ghi) # Len(cal.args.elevations_deg)
    \/ Len(cal.args.observed_ghi) # Len(cal.args.elevations_deg)

\* C7: whenever the three sequences do not all have the same length the call
\* fails with the validation error, before any sample is examined, and returns
\* no value; equal lengths never raise.
C7_LengthMismatchRaises ==
    CalDone =>
        /\ Mismatched => cal.outcome = "raised" /\ cal.examined = 0 /\ cal.value = None
        /\ ~Mismatched => cal.outcome = "returned"

\* Only the elevations are one short, and the two samples all three sequences
\* share would qualify: the call raised.
C7_Witness ==
    /\ cal.outcome = "raised"
    /\ Len(cal.args.observed_ghi) = 3
    /\ Len(cal.args.modeled_ghi) = 3
    /\ Len(cal.args.elevations_deg) = 2
    /\ cal.args.min_elev < cal.args.max_elev
    /\ \A i \in 1..2 :
          /\ cal.args.elevations_deg[i] = 20000000
          /\ cal.args.modeled_ghi[i] = 50000000
          /\ cal.args.observed_ghi[i] = 100000000

\* The indices that qualify: elevation within [min_elev, max_elev], modeled
\* above 1e-6, ratio positive.
Qualifying ==
    {i \in 1..Len(cal.args.elevations_deg) :
        /\ cal.args.min_elev <= cal.args.elevations_deg[i]
        /\ cal.args.elevations_deg[i] <= cal.args.max_elev
        /\ cal.args.modeled_ghi[i] > 1
        /\ cal.args.observed_ghi[i] > 0
        /\ Div[cal.args.observed_ghi[i], cal.args.modeled_ghi[i]] > 0}

RatioAt(i) == Div[cal.args.observed_ghi[i], cal.args.modeled_ghi[i]]

\* The k-th smallest ratio over the qualifying indices.
KthRatio(k) ==
    CHOOSE v \in {RatioAt(i) : i \in Qualifying} :
        /\ Cardinality({i \in Qualifying : RatioAt(i) < v}) < k
        /\ Cardinality({i \in Qualifying : RatioAt(i) <= v}) >= k

MedianOfQualifying ==
    IF Cardinality(Qualifying) % 2 = 1
    THEN KthRatio((Cardinality(Qualifying) + 1) \div 2)
    ELSE (KthRatio(Cardinality(Qualifying) \div 2)
            + KthRatio(Cardinality(Qualifying) \div 2 + 1)) \div 2

\* C8 as stated: the value is the median over the qualifying indices, and it
\* is 1.0 exactly when no index qualifies.
C8_OneIffNoneQualify ==
    cal.outcome = "returned" =>
        /\ Qualifying # {} => cal.value = MedianOfQualifying
        /\ cal.value = SCALE <=> Qualifying = {}

\* C8: for equal-length inputs the value is the median of observed[i]/modeled[i]
\* over exactly the indices with min_elev <= elevations[i] <= max_elev,
\* modeled[i] > 1e-6 and ratio > 0, and it is 1.0 when no index qualifies
\* (empty input and min_elev > max_elev included).
C8_MedianOfQualifying ==
    cal.outcome = "returned" =>
        /\ cal.examined = Len(cal.args.observed_ghi)
        /\ Len(cal.pairs) = Cardinality(Qualifying)
        /\ Qualifying # {} => cal.value = MedianOfQualifying
        /\ Qualifying = {} => cal.value = SCALE
        /\ cal.args.min_elev > cal.args.max_elev => cal.value = SCALE

\* Three samples, two of them qualifying, one at min_elev and one at max_elev
\* with ratios 3.0 and 0.5, the third above max_elev: the value is 1.75.
C8_Witness ==
    /\ cal.outcome = "returned"
    /\ Len(cal.args.observed_ghi) = 3
    /\ Cardinality(Qualifying) = 2
    /\ \E i, j \in Qualifying :
          /\ cal.args.elevations_deg[i] = cal.args.min_elev
          /\ cal.args.elevations_deg[j] = cal.args.max_elev
    /\ cal.value = 1750000

\* ---- The integration in its host -----------------------------------------------

\* What the host configuration may say: unset, the equator and Greenwich, a site.
HostLats == {None} \cup {<<lat>> : lat \in Lats}

HostLons == {None} \cup {<<lon>> : lon \in Lons}

\* datetime.now(tz=UTC)
Now ==
    [year |-> ThisYear, day |-> InstantSeq[clock][1], hour |-> InstantSeq[clock][2],
     tzinfo |-> "UTC"]

\* compute_clear_sky's defaults: elevation_m = 0.0, linke_turbidity = 3.0
DefaultElevationM == 0

DefaultLinkeTurbidity == 3000000

\* async_update_clear_sky_estimates of coordinator c, and the coordinator
\* taking its result as data (DataUpdateCoordinator.async_refresh).
async_update_clear_sky_estimates(c) ==
    /\ compute_clear_sky(SelfLat(c), SelfLon(c), Now, DefaultElevationM,
                         DefaultLinkeTurbidity, call')
    /\ coordinator' = [c EXCEPT !.data = Estimates(call'.result), !.now = Now]

Init ==
    /\ hostLat \in HostLats
    /\ hostLon \in HostLons
    /\ hostTz \in Tzs
    /\ clock = 1
    /\ astral \in Skies
    /\ call = NoCall
    /\ call2 = NoCall
    /\ cal = NoCal
    /\ coordinator = NoCoordinator
    /\ config_entries = NoConfigEntries
    /\ erbs = NoErbs

\* async_setup_entry: construct the coordinator and await its first refresh.
SetupEntry ==
    /\ ~coordinator.constructed
    /\ async_update_clear_sky_estimates(ClearSkyCoordinator)
    /\ UNCHANGED <<hostLat, hostLon, hostTz, clock, astral, call2, cal,
                 config_entries, erbs>>

\* Time passes.
Tick ==
    /\ clock < Len(InstantSeq)
    /\ clock' = clock + 1
    /\ UNCHANGED <<hostLat, hostLon, hostTz, astral, call, call2, cal, coordinator,
                 config_entries, erbs>>

\* The user changes the host's location settings.
ConfigChange ==
    /\ hostLat' \in HostLats
    /\ hostLon' \in HostLons
    /\ <<hostLat', hostLon'>> # <<hostLat, hostLon>>
    /\ UNCHANGED <<hostTz, clock, astral, call, call2, cal, coordinator,
                 config_entries, erbs>>

\* The host's timer calls for a refresh (every UPDATE_INTERVAL).
Refresh ==
    /\ coordinator.constructed
    /\ async_update_clear_sky_estimates(coordinator)
    /\ UNCHANGED <<hostLat, hostLon, hostTz, clock, astral, call2, cal,
                 config_entries, erbs>>

Next == SetupEntry \/ Tick \/ ConfigChange \/ Refresh

Spec == Init /\ [][Next]_vars

\* C9: every refresh yields a mapping with exactly the keys "ghi", "dni", "dhi",
\* its three values those of the one compute_clear_sky call the refresh made,
\* for the one timestamp the refresh read.
C9_OneCallPerRefresh ==
    coordinator.constructed =>
        /\ DOMAIN coordinator.data = {"ghi", "dni", "dhi"}
        /\ Called(call) /\ ~call.raised
        /\ call.args.when = coordinator.now
        /\ call.args.elevation_m = 0 /\ call.args.linke_turbidity = 3000000
        /\ coordinator.data["ghi"] = call.result.ghi
        /\ coordinator.data["dni"] = call.result.dni
        /\ coordinator.data["dhi"] = call.result.dhi

\* A refresh later than the first, in daylight, with three different values.
C9_Witness ==
    /\ coordinator.constructed
    /\ coordinator.now.day = 185
    /\ coordinator.now = Now
    /\ call.path = "day"
    /\ coordinator.data["ghi"] > coordinator.data["dni"]
    /\ coordinator.data["dni"] > coordinator.data["dhi"]
    /\ coordinator.data["dhi"] > 0

\* C10: the coordinator's latitude and longitude are what the host
\* configuration said at construction, 0.0 for an unset one; every refresh
\* calls compute_clear_sky with them, and no step changes them once the
\* coordinator is constructed, whatever the host configuration says later.
C10_LocationFixedAtConstruction ==
    /\ [](coordinator.constructed =>
            /\ coordinator._lat = (IF coordinator.config[1] = None THEN 0
                                   ELSE coordinator.config[1][1])
            /\ coordinator._lon = (IF coordinator.config[2] = None THEN 0
                                   ELSE coordinator.config[2][1])
            /\ call.args.lat = coordinator._lat
            /\ call.args.lon = coordinator._lon)
    /\ [][coordinator.constructed =>
            /\ coordinator'.constructed
            /\ coordinator'._lat = coordinator._lat
            /\ coordinator'._lon = coordinator._lon
            /\ coordinator'.config = coordinator.config]_vars

\* Constructed with the latitude unset, the host since configured to a site:
\* a later refresh still asked for latitude 0.0 and the longitude read then.
C10_Witness ==
    /\ coordinator.constructed
    /\ coordinator.config[1] = None
    /\ coordinator._lat = 0
    /\ hostLat = <<37774900>>
    /\ hostLon # coordinator.config[2]
    /\ coordinator.now.day = 365
    /\ call.args.when = coordinator.now
    /\ call.args.lat = 0
    /\ call.args.lon = coordinator._lon

\* ---- The sensors ---------------------------------------------------------------

\* const.DOMAIN
DOMAIN_NAME == "clear_sky_solar"

\* The three sensor descriptions, in the order of the list.
SENSOR_DESCRIPTIONS ==
    << [key |-> GHI, name |-> "Clear-Sky GHI"],
       [key |-> DNI, name |-> "Clear-Sky DNI"],
       [key |-> DHI, name |-> "Clear-Sky DHI"] >>

\* ClearSkySolarSensor.__init__: the sensor keeps a reference to the
\* coordinator, so what it reads is the coordinator as it is now.
ClearSkySolarSensor(c, desc) ==
    [coordinator |-> c, entity_description |-> desc,
     _attr_unique_id |-> <<DOMAIN_NAME, desc.key>>]

\* Python's truth value of coordinator.data: None and the empty mapping are false.
Truthy(data) == DOMAIN data # {}

\* `data.get(key) or None`: a reading of 0.0 taken for a missing one.
GetOrNone(data, key) ==
    IF key \in DOMAIN data /\ data[key] # 0 THEN <<data[key]>> ELSE None

\* dict.get(key): the value under the key, None for a missing key.
Get(data, key) == IF key \in DOMAIN data THEN <<data[key]>> ELSE None

\* ClearSkySolarSensor.native_value
native_value(self) ==
    IF Truthy(self.coordinator.data)
    THEN Get(self.coordinator.data, self.entity_description.key)
    ELSE None

\* sensor.async_setup_entry: one sensor for each description, all on the
\* entry's coordinator.
Sensors ==
    [i \in 1..Len(SENSOR_DESCRIPTIONS) |->
        ClearSkySolarSensor(coordinator, SENSOR_DESCRIPTIONS[i])]

\* A coordinator constructed on the host's configuration and not yet refreshed,
\* with its sensors made (tests/test_sensor.py makes them this way; in
\* async_setup_entry it is the state between construction and a first refresh).
InitSensor ==
    /\ hostLat \in HostLats
    /\ hostLon \in HostLons
    /\ hostTz \in Tzs
    /\ clock = 1
    /\ astral \in Skies
    /\ call = NoCall
    /\ call2 = NoCall
    /\ cal = NoCal
    /\ coordinator = ClearSkyCoordinator
    /\ config_entries = NoConfigEntries
    /\ erbs = NoErbs

NextSensor == Tick \/ ConfigChange \/ Refresh

SpecSensor == InitSensor /\ [][NextSensor]_vars

\* C11: whatever refreshes have happened, each sensor's native_value is the
\* value under the sensor's own key in the coordinator's current data, and it
\* is None exactly when the coordinator holds no data.
C11_SensorsMirrorData ==
    \A i \in 1..Len(SENSOR_DESCRIPTIONS) :
        /\ Sensors[i].entity_description.key = <<GHI, DNI, DHI>>[i]
        /\ (native_value(Sensors[i]) = None) <=> (DOMAIN coordinator.data = {})
        /\ DOMAIN coordinator.data # {} =>
              /\ DOMAIN coordinator.data = {GHI, DNI, DHI}
              /\ native_value(Sensors[i]) =
                    <<coordinator.data[SENSOR_DESCRIPTIONS[i].key]>>

\* A refresh later than the first, at night: the three sensors read 0.0.
C11_Witness ==
    /\ call.path = "night"
    /\ clock > 1
    /\ coordinator.now = Now
    /\ \A i \in 1..Len(SENSOR_DESCRIPTIONS) : native_value(Sensors[i]) = <<0>>

\* Daylight after a night: the three sensors read three different values,
\* each its own.
C11_DayWitness ==
    /\ call.path = "day"
    /\ clock > 2
    /\ native_value(Sensors[1]) = <<call.result.ghi>>
    /\ native_value(Sensors[2]) = <<call.result.dni>>
    /\ native_value(Sensors[3]) = <<call.result.dhi>>
    /\ call.result.ghi > call.result.dni
    /\ call.result.dni > call.result.dhi
    /\ call.result.dhi > 0

\* Before any refresh the coordinator holds no data and every sensor reads None.
C11_NoDataWitness ==
    /\ call = NoCall
    /\ coordinator.constructed
    /\ \A i \in 1..Len(SENSOR_DESCRIPTIONS) : native_value(Sensors[i]) = None

\* ---- The config flow -----------------------------------------------------------

\* How many flows the user starts.
MaxFlows == 3

\* What a step may be handed: nothing, an empty form, a form with a field.
UserInputs == {None, <<{}>>, <<{<<"name", "site">>}>>}

\* The integration's flows in progress other than flow_id whose context
\* carries unique_id.
InProgress(ce, flow_id, unique_id) ==
    {i \in 1..Len(ce.flows) :
        /\ i # flow_id
        /\ ce.flows[i].in_progress
        /\ ce.flows[i].context.unique_id = <<unique_id>>}

\* The entries of the integration with this unique id.
Configured(ce, unique_id) ==
    {i \in 1..Len(ce.entries) : ce.entries[i].unique_id = <<unique_id>>}

AbortFlow(reason) == [type |-> "abort", reason |-> reason]

\* self.async_set_unique_id(unique_id): the host refuses a flow whose unique id
\* another flow in progress carries, and otherwise writes it in the context.
async_set_unique_id(ce, flow_id, unique_id) ==
    IF InProgress(ce, flow_id, unique_id) # {}
    THEN [raised |-> TRUE, result |-> AbortFlow("already_in_progress"),
          unique_id |-> ce.flows[flow_id].context.unique_id]
    ELSE [raised |-> FALSE, unique_id |-> <<unique_id>>]

\* The check left out: a flow goes on although an entry is configured.
AbortNever(ce, unique_id) == [raised |-> FALSE]

\* self._abort_if_unique_id_configured()
abort_if_unique_id_configured(ce, unique_id) ==
    IF unique_id # None /\ Configured(ce, unique_id[1]) # {}
    THEN [raised |-> TRUE, result |-> AbortFlow("already_configured")]
    ELSE [raised |-> FALSE]

async_show_form(step_id) == [type |-> "form", step_id |-> step_id]

async_create_entry(title, data) ==
    [type |-> "create_entry", title |-> title, data |-> data]

\* ClearSkySolarConfigFlow.async_step_user of flow flow_id: the unique id its
\* context ends with, and the step's result.
async_step_user(ce, flow_id, user_input) ==
    LET set == async_set_unique_id(ce, flow_id, DOMAIN_NAME) IN
    IF set.raised THEN [unique_id |-> set.unique_id, result |-> set.result]
    ELSE LET conf == abort_if_unique_id_configured(ce, set.unique_id) IN
         IF conf.raised THEN [unique_id |-> set.unique_id, result |-> conf.result]
         ELSE IF user_input = None
              THEN [unique_id |-> set.unique_id, result |-> async_show_form("user")]
              ELSE [unique_id |-> set.unique_id,
                    result |-> async_create_entry("Clear-Sky Solar", {})]

\* A flow the flow manager has made and not yet stepped.
NewFlow ==
    [handler |-> DOMAIN_NAME, in_progress |-> TRUE,
     context |-> [source |-> "user", unique_id |-> None],
     result |-> [type |-> "none"]]

ConfigEntry(flow, result) ==
    [domain |-> flow.handler, unique_id |-> flow.context.unique_id,
     title |-> result.title, data |-> result.data]

\* The flow manager running the user step of flow flow_id and taking its
\* result: a form leaves the flow in progress, an abort ends it, a created
\* entry is added to the entries and ends it. `last` records the step and
\* what held when it began.
HandleStep(ce, flow_id, user_input) ==
    LET step == async_step_user(ce, flow_id, user_input)
        flow == [ce.flows[flow_id] EXCEPT
                    !.context.unique_id = step.unique_id,
                    !.in_progress = (step.result.type = "form"),
                    !.result = step.result]
    IN  [entries |-> IF step.result.type = "create_entry"
                     THEN Append(ce.entries, ConfigEntry(flow, step.result))
                     ELSE ce.entries,
         flows |-> [ce.flows EXCEPT ![flow_id] = flow],
         last |-> [flow_id |-> flow_id, user_input |-> user_input,
                   configured |-> Len(ce.entries),
                   others |-> {i \in 1..Len(ce.flows) :
                                  i # flow_id /\ ce.flows[i].in_progress},
                   result |-> step.result]]

InitFlow ==
    /\ hostLat = None
    /\ hostLon = None
    /\ hostTz = 0
    /\ clock = 1
    /\ astral = [g \in Geoms |-> ElevationSeq[(GeomIndex(g) % Len(ElevationSeq)) + 1]]
    /\ call = NoCall
    /\ call2 = NoCall
    /\ cal = NoCal
    /\ coordinator = NoCoordinator
    /\ config_entries = NoConfigEntries
    /\ erbs = NoErbs

\* A flow touches nothing but hass.config_entries.
HostFrame ==
    UNCHANGED <<hostLat, hostLon, hostTz, clock, astral, call, call2, cal,
                coordinator, erbs>>

\* The user adds the integration: the flow manager makes a flow and runs its
\* user step, with no input or with the input the caller gave.
StartFlow ==
    /\ Len(config_entries.flows) < MaxFlows
    /\ \E user_input \in UserInputs :
          config_entries' =
              HandleStep([config_entries EXCEPT !.flows = Append(@, NewFlow)],
                         Len(config_entries.flows) + 1, user_input)
    /\ HostFrame

\* The user answers the form of a flow in progress.
ConfigureFlow ==
    /\ \E flow_id \in 1..Len(config_entries.flows), user_input \in UserInputs :
          /\ config_entries.flows[flow_id].in_progress
          /\ config_entries' = HandleStep(config_entries, flow_id, user_input)
    /\ HostFrame

\* The user closes the form of a flow in progress.
CloseFlow ==
    /\ \E flow_id \in 1..Len(config_entries.flows) :
          /\ config_entries.flows[flow_id].in_progress
          /\ config_entries' =
                [config_entries EXCEPT !.flows[flow_id].in_progress = FALSE]
    /\ HostFrame

\* The user deletes the integration's entry.
RemoveEntry ==
    /\ config_entries.entries # <<>>
    /\ config_entries' = [config_entries EXCEPT !.entries = Tail(@)]
    /\ HostFrame

NextFlow == StartFlow \/ ConfigureFlow \/ CloseFlow \/ RemoveEntry

SpecFlow == InitFlow /\ [][NextFlow]_vars

Stepped == config_entries.last # NoStep

\* C12 as stated: a step aborts when an entry is configured, and otherwise
\* shows the form for no input and creates an entry with empty data for any
\* input; there is never more than one entry.
C12_ThreeOutcomes ==
    /\ Len(config_entries.entries) <= 1
    /\ Stepped =>
          LET last == config_entries.last IN
          /\ last.configured > 0 => last.result.type = "abort"
          /\ last.configured = 0 /\ last.user_input = None =>
                last.result.type = "form"
          /\ last.configured = 0 /\ last.user_input # None =>
                /\ last.result.type = "create_entry"
                /\ last.result.data = {}

\* C12: a user step ends in one of three outcomes. It aborts when an entry
\* with unique id equal to the domain is configured, or when another flow of
\* the integration is in progress under that unique id, both before the input
\* is looked at; otherwise it shows the form for no input and creates an entry
\* with empty data for any input. There is never more than one entry.
C12_Outcomes ==
    /\ Len(config_entries.entries) <= 1
    /\ \A i \in 1..Len(config_entries.entries) :
          /\ config_entries.entries[i].unique_id = <<DOMAIN_NAME>>
          /\ config_entries.entries[i].data = {}
    /\ Stepped =>
          LET last == config_entries.last IN
          /\ last.result.type \in {"abort", "form", "create_entry"}
          /\ (last.configured > 0 \/ last.others # {}) <=> last.result.type = "abort"
          /\ last.configured = 0 /\ last.others = {} /\ last.user_input = None =>
                last.result.type = "form"
          /\ last.configured = 0 /\ last.others = {} /\ last.user_input # None =>
                /\ last.result.type = "create_entry"
                /\ last.result.data = {}

\* A first flow shown its form and closed, a second flow that created the
\* entry, and a third flow, started with no input, aborted because the entry
\* is configured.
C12_Witness ==
    /\ Stepped
    /\ config_entries.last.flow_id = 3
    /\ config_entries.last.user_input = None
    /\ config_entries.last.configured = 1
    /\ config_entries.last.result = AbortFlow("already_configured")
    /\ config_entries.flows[1].result.type = "form"
    /\ config_entries.flows[2].result.type = "create_entry"
    /\ Len(config_entries.entries) = 1

\* A second flow started with no input while the first shows its form and no
\* entry is configured: it is aborted, not shown the form.
C12_InProgressWitness ==
    /\ Stepped
    /\ config_entries.last.flow_id = 2
    /\ config_entries.last.user_input = None
    /\ config_entries.last.configured = 0
    /\ config_entries.last.others = {1}
    /\ config_entries.last.result = AbortFlow("already_in_progress")
    /\ config_entries.entries = <<>>

\* An entry created, deleted, and created again by a later flow shown its
\* form first.
C12_AgainWitness ==
    /\ Stepped
    /\ config_entries.last.flow_id = 2
    /\ config_entries.last.user_input = <<{<<"name", "site">>}>>
    /\ config_entries.last.result.type = "create_entry"
    /\ config_entries.flows[1].result.type = "create_entry"
    /\ Len(config_entries.entries) = 1

\* ---- _erbs_diffuse_fraction on its own --------------------------------------------

\* Clearness indices: 0 to 1.5 in hundredths, and the two regime bounds with
\* their neighbours a millionth away.
Kts ==
    {10000 * i : i \in 0..150}
        \cup {219999, 220000, 220001, 799999, 800000, 800001}

InitErbs ==
    /\ hostLat = None
    /\ hostLon = None
    /\ hostTz = 0
    /\ clock = 1
    /\ astral = [g \in Geoms |-> ElevationSeq[(GeomIndex(g) % Len(ElevationSeq)) + 1]]
    /\ call = NoCall
    /\ call2 = NoCall
    /\ cal = NoCal
    /\ coordinator = NoCoordinator
    /\ config_entries = NoConfigEntries
    /\ erbs \in {[state |-> "pending", kt |-> kt] : kt \in Kts}

\* fd = _erbs_diffuse_fraction(kt)
Erbs ==
    /\ erbs.state = "pending"
    /\ erbs' = [state |-> "done", kt |-> erbs.kt, fd |-> erbs_diffuse_fraction(erbs.kt)]
    /\ UNCHANGED <<hostLat, hostLon, hostTz, clock, astral, call, call2, cal,
                   coordinator, config_entries>>

NextErbs == Erbs

SpecErbs == InitErbs /\ [][NextErbs]_vars

\* C13: for every clearness index kt the value returned is 1 - 0.09 kt when
\* kt < 0.22, the quartic 0.9511 - 0.1604 kt + 4.388 kt^2 - 16.638 kt^3
\* + 12.336 kt^4 when 0.22 <= kt < 0.80, and 0.165 when kt >= 0.80: kt = 0.22
\* takes the quartic and kt = 0.80 the constant.
C13_ErbsPiecewise ==
    erbs.state = "done" =>
        LET kt == erbs.kt
            kt2 == MulS[kt, kt]
            kt3 == MulS[kt2, kt]
            kt4 == MulS[kt3, kt]
            linear == SCALE - MulS[90000, kt]
            quartic == 951100 - MulS[160400, kt] + MulS[4388000, kt2]
                         - MulS[16638000, kt3] + MulS[12336000, kt4]
        IN  /\ kt < 220000 => erbs.fd = linear
            /\ 220000 <= kt /\ kt < 800000 => erbs.fd = quartic
            /\ kt >= 800000 => erbs.fd = 165000
            /\ kt = 220000 => erbs.fd # linear
            /\ kt = 800000 => erbs.fd # quartic

\* kt = 0.80: the constant 0.165, where the quartic would give 0.16527.
C13_Witness ==
    /\ erbs.state = "done"
    /\ erbs.kt = 800000
    /\ erbs.fd = 165000
    /\ erbs_diffuse_fraction(799999) > 165200
    /\ erbs_diffuse_fraction(799999) < 165300

\* kt = 0.22: the quartic's 0.97993, where the linear law would give 0.9802.
C13_OvercastWitness ==
    /\ erbs.state = "done"
    /\ erbs.kt = 220000
    /\ erbs.fd > 979900
    /\ erbs.fd < 980000
    /\ erbs_diffuse_fraction(219999) > 980200

\* ---- The beam and diffuse components of a single call ----------------------------

\* dni * mu of a daytime result: the beam on the horizontal plane.
BeamOnHorizontal(c) == MulS[c.result.dni, c.mu]

C14_ExactWitness ==
    /\ call.path = "day"
    /\ ~call.raised
    /\ call.mu >= 1000
    /\ BeamOnHorizontal(call) > 0
    /\ call.result.dhi > 0
    /\ BeamOnHorizontal(call) + call.result.dhi = call.result.ghi

\* A daytime call with the sun grazing the horizon, 0 < mu < 1e-3, where the
\* guard replaces mu in the division.
C14_GrazingWitness ==
    /\ call.path = "day"
    /\ ~call.raised
    /\ call.mu > 0
    /\ call.mu < 1000
    /\ MuGuard(call.mu) > call.mu
    /\ BeamOnHorizontal(call) + call.result.dhi <= call.result.ghi

\* C15: the dni returned never exceeds 0.98 * dni0, with
\* dni0 = 1367 * eccentricity_correction(day_of_year) the extraterrestrial
\* direct-normal irradiance of the day of the call: at night, in daylight, and
\* with the sun grazing the horizon where the divisor is the guard 1e-3.
C15_BeamBelowExtraterrestrial ==
    /\ call.path = "night" => call.result.dni = 0
    /\ call.path = "day" /\ ~call.raised =>
          /\ call.dni0 = ISC * eccentricity_correction(call.n)
          /\ call.result.dni <= MulS[980000, call.dni0]

\* A daytime call in which the extraterrestrial cap binds on ghi and the
\* diffuse fraction is at its clear-sky floor: dni is above 0.8 * 0.98 * dni0,
\* and below 0.98 * dni0.
C15_Witness ==
    /\ call.path = "day"
    /\ ~call.raised
    /\ call.ghi_raw > MulS[980000, call.ghi0]
    /\ call.fd = 165000
    /\ call.mu >= 1000
    /\ call.result.dni > MulS[800000, MulS[980000, call.dni0]]
    /\ call.result.dni < MulS[980000, call.dni0]

\* A daytime call with the sun grazing the horizon, the divisor the guard.
C15_GrazingWitness ==
    /\ call.path = "day"
    /\ ~call.raised
    /\ call.mu > 0
    /\ call.mu < 1000
    /\ MuGuard(call.mu) = 1000
    /\ call.result.dni <= MulS[980000, call.dni0]

====
